---------------------------- MODULE Spec2Model ----------------------------
(***************************************************************************)
(* A model of src/api/main.py, the AQI prediction API.                     *)
(*                                                                         *)
(* Numbers.  Python floats are modelled by exact rationals:                *)
(*   - a pollutant concentration given to calculate_aqi_from_pollutants is *)
(*     an integer number of tenths (pm25 = 354 is 35.4);                   *)
(*   - an index computed by calculate_aqi_from_pollutants is a mixed       *)
(*     number [w, f] standing for w + f / D, 0 <= f < D, where D is a      *)
(*     common multiple of every divisor the function uses;                 *)
(*   - a field of an HourlyData observation is an integer number of        *)
(*     thousandths (AQI = 65000 is 65.0);                                  *)
(*   - a datetime is an integer number of whole hours since                *)
(*     1970-01-01T00:00 (wall clock);                                      *)
(*   - a value returned by a prediction backend is an integer number of    *)
(*     hundred-thousandths (5000400 is 50.004), and an "aqi" field of a    *)
(*     response is an integer number of hundredths (5000 is 50.0).         *)
(*                                                                         *)
(* Specifications.  Spec drives the functions that need no registry        *)
(* (calculate_aqi_from_pollutants, process_historical_data,                *)
(* fetch_live_air_quality_data).  ApiSpec is the served application:       *)
(* the startup hook load_models, then the prediction endpoints.            *)
(***************************************************************************)
EXTENDS Integers, Sequences, FiniteSets, TLC

VARIABLES
    op,                 \* the function or handler that ran last
    pollutants,         \* arguments of calculate_aqi_from_pollutants (tenths)
    total_aqi,          \* value returned by calculate_aqi_from_pollutants
    historical_data,    \* argument of process_historical_data
    current_timestamp,  \* argument of process_historical_data
    now,                \* what datetime.now() returned during the call
    padded_data,        \* process_historical_data: the padded list
    hour_timestamps,    \* process_historical_data: hour_timestamp of each row
    processed_sequence, \* process_historical_data: the returned matrix
    optimized_input,    \* extract_optimized_input_from_history: how it ended
    hours_arg,          \* fetch_live_air_quality_data: the hours argument
    provider,           \* fetch_live_air_quality_data: what requests.get met
    fetched,            \* fetch_live_air_quality_data: how it ended
    models,             \* the global registry: names that have an entry
    load_outcomes,      \* load_models: what each load attempt met
    request,            \* the request an endpoint handled last
    response,           \* the response (or HTTP error) it produced
    live                \* a predict_live call running in the thread pool

pureVars == <<pollutants, total_aqi, historical_data, current_timestamp, now,
              padded_data, hour_timestamps, processed_sequence,
              optimized_input>>

fetchVars == <<hours_arg, provider, fetched>>

apiVars == <<models, load_outcomes, request, response, live>>

vars == <<op, pollutants, total_aqi, historical_data, current_timestamp, now,
          padded_data, hour_timestamps, processed_sequence, optimized_input,
          hours_arg, provider, fetched,
          models, load_outcomes, request, response, live>>

Min(a, b) == IF b < a THEN b ELSE a
Max(a, b) == IF b > a THEN b ELSE a

(***************************************************************************)
(* Exact arithmetic on mixed numbers w + f / D.                            *)
(***************************************************************************)
D == 64 * 9 * 625 * 13 * 19

\* n / d for integers n and d > 0, d a divisor of D
Ratio(n, d) == [w |-> n \div d, f |-> (n % d) * (D \div d)]

Whole(n) == [w |-> n, f |-> 0]

Plus(a, b) ==
    LET s == a.f + b.f
    IN  [w |-> a.w + b.w + (s \div D), f |-> s % D]

Less(a, b) == a.w < b.w \/ (a.w = b.w /\ a.f < b.f)
Leq(a, b) == ~Less(b, a)

\* Python's min(a, b) and max(a, b) on floats
FMin(a, b) == IF Less(b, a) THEN b ELSE a
FMax(a, b) == IF Less(a, b) THEN b ELSE a

(***************************************************************************)
(* calculate_aqi_from_pollutants                                           *)
(***************************************************************************)

\* variants of Pm25Aqi with one slip each
Pm25AqiWrongBase(pm25) ==
    IF pm25 <= 120 THEN Ratio(50 * pm25, 120)
    ELSE IF pm25 <= 354 THEN Plus(Whole(51), Ratio((100 - 51) * (pm25 - 120), 354 - 120))
    ELSE IF pm25 <= 554 THEN Plus(Whole(91), Ratio((150 - 101) * (pm25 - 354), 554 - 354))
    ELSE IF pm25 <= 1504 THEN Plus(Whole(151), Ratio((200 - 151) * (pm25 - 554), 1504 - 554))
    ELSE IF pm25 <= 2504 THEN Plus(Whole(201), Ratio((300 - 201) * (pm25 - 1504), 2504 - 1504))
    ELSE Plus(Whole(301), Ratio((500 - 301) * Min(pm25 - 2504, 2496), 5000 - 2504))

Pm25AqiWrongSlope(pm25) ==
    IF pm25 <= 120 THEN Ratio(50 * pm25, 120)
    ELSE IF pm25 <= 354 THEN Plus(Whole(51), Ratio((100 - 51) * (pm25 - 120), 354 - 120))
    ELSE IF pm25 <= 554 THEN Plus(Whole(101), Ratio((150 - 101) * (pm25 - 354), 554 - 354))
    ELSE IF pm25 <= 1504 THEN Plus(Whole(151), Ratio((200 - 151) * (pm25 - 554), 1504 - 554))
    ELSE IF pm25 <= 2504 THEN Plus(Whole(201), Ratio((300 - 201) * (pm25 - 1504), 2504 - 1504))
    ELSE Plus(Whole(301), Ratio((500 - 300) * Min(pm25 - 2504, 2496), 5000 - 2504))

Pm25AqiTopBandClamped(pm25) ==
    IF pm25 <= 120 THEN Ratio(50 * pm25, 120)
    ELSE IF pm25 <= 354 THEN Plus(Whole(51), Ratio((100 - 51) * (pm25 - 120), 354 - 120))
    ELSE IF pm25 <= 554 THEN Plus(Whole(101), Ratio((150 - 101) * (pm25 - 354), 554 - 354))
    ELSE IF pm25 <= 1504 THEN Plus(Whole(151), Ratio((200 - 151) * (pm25 - 554), 1504 - 554))
    ELSE IF pm25 <= 2504 THEN Plus(Whole(201), Ratio((300 - 201) * (pm25 - 1504), 2504 - 1504))
    ELSE Whole(500)

\* the if/elif chain on pm25 (tenths); every divisor is written in tenths
Pm25Aqi(pm25) ==
    IF pm25 <= 120 THEN Ratio(50 * pm25, 120)
    ELSE IF pm25 <= 354 THEN Plus(Whole(51), Ratio((100 - 51) * (pm25 - 120), 354 - 120))
    ELSE IF pm25 <= 554 THEN Plus(Whole(101), Ratio((150 - 101) * (pm25 - 354), 554 - 354))
    ELSE IF pm25 <= 1504 THEN Plus(Whole(151), Ratio((200 - 151) * (pm25 - 554), 1504 - 554))
    ELSE IF pm25 <= 2504 THEN Plus(Whole(201), Ratio((300 - 201) * (pm25 - 1504), 2504 - 1504))
    ELSE Plus(Whole(301), Ratio((500 - 301) * Min(pm25 - 2504, 2496), 5000 - 2504))

\* min(value / threshold, 1.0) * max_points, value and threshold in tenths
PollutantFactor(value, threshold, max_points) ==
    IF threshold < value THEN Whole(max_points)
    ELSE Ratio(value * max_points, threshold)

\* Clamp without the lower clamp
ClampNoFloor(total) == FMin(total, Whole(500))

\* min(max(total_aqi, 0), 500)

Clamp(total) == FMin(FMax(total, Whole(0)), Whole(500))

calculate_aqi_from_pollutants(pm25, pm10, o3, no2, so2, co) ==
    LET pm25_aqi == Pm25Aqi(pm25)
        o3_factor == PollutantFactor(o3, 2000, 30)
        no2_factor == PollutantFactor(no2, 1000, 20)
        so2_factor == PollutantFactor(so2, 200, 15)
        co_factor == PollutantFactor(co, 10000, 10)
    IN  Clamp(Plus(Plus(Plus(Plus(pm25_aqi, o3_factor), no2_factor), so2_factor),
                   co_factor))

(***************************************************************************)
(* HourlyData, timestamps and datetimes                                    *)
(***************************************************************************)

\* Optional[str] timestamps: None, the placeholder "string", a text that
\* datetime.fromisoformat rejects, or an ISO text of the given hour
NoTimestamp == [kind |-> "none", hour |-> 0]
StringTimestamp == [kind |-> "string", hour |-> 0]
InvalidTimestamp == [kind |-> "invalid", hour |-> 0]
IsoTimestamp(h) == [kind |-> "iso", hour |-> h]

\* datetime.fromisoformat(ts.replace('Z', '+00:00')): the datetime, or
\* ValueError
FromIsoFormat(ts) ==
    IF ts.kind = "iso" THEN [ok |-> TRUE, hour |-> ts.hour]
    ELSE [ok |-> FALSE, hour |-> 0]

HourlyData(co, no2, so2, o3, pm25, pm10, aqi, ts) ==
    [CO |-> co, NO2 |-> no2, SO2 |-> so2, O3 |-> o3, PM25 |-> pm25,
     PM10 |-> pm10, AQI |-> aqi, timestamp |-> ts]

\* the calendar fields of a datetime (proleptic Gregorian calendar);
\* weekday() counts from Monday = 0, and 1970-01-01 was a Thursday
DateOf(t) ==
    LET z == (t \div 24) + 719468
        era == z \div 146097
        doe == z - era * 146097
        yoe == (doe - (doe \div 1460) + (doe \div 36524) - (doe \div 146096)) \div 365
        doy == doe - (365 * yoe + (yoe \div 4) - (yoe \div 100))
        mp == (5 * doy + 2) \div 153
        m == IF mp < 10 THEN mp + 3 ELSE mp - 9
    IN  [hour |-> t % 24,
         weekday |-> ((t \div 24) + 3) % 7,
         month |-> m,
         year |-> yoe + era * 400 + (IF m <= 2 THEN 1 ELSE 0)]

(***************************************************************************)
(* Feature values.  [fn, num, den] stands for num / den when fn = "id",    *)
(* for sin(2 pi num / den) and cos(2 pi num / den) when fn is "sin" or     *)
(* "cos", and for num / (den * 10^6) when fn = "e-6".                      *)
(***************************************************************************)
Quot(n, d) == [fn |-> "id", num |-> n, den |-> d]
Sin(x, period) == [fn |-> "sin", num |-> x, den |-> period]
Cos(x, period) == [fn |-> "cos", num |-> x, den |-> period]

(***************************************************************************)
(* create_time_features                                                    *)
(***************************************************************************)
\* create_time_features without its last feature
create_time_features_short(timestamp) ==
    LET dt == DateOf(timestamp)
        hour == dt.hour
        dayofweek == dt.weekday
        is_weekend == IF dayofweek >= 5 THEN 1 ELSE 0
        is_rush == IF is_weekend = 0 /\ ((7 <= hour /\ hour <= 9) \/ (17 <= hour /\ hour <= 19))
                   THEN 1 ELSE 0
    IN  << Sin(hour, 24), Cos(hour, 24), Sin(dayofweek, 7), Cos(dayofweek, 7),
           Sin(dt.month, 12), Cos(dt.month, 12), Quot(dt.year - 2020, 5),
           Quot(is_weekend, 1), Quot(is_rush, 1) >>

\* create_time_features with a rush hour on every day of the week
create_time_features_rush_any_day(timestamp) ==
    LET dt == DateOf(timestamp)
        hour == dt.hour
        dayofweek == dt.weekday
        is_weekend == IF dayofweek >= 5 THEN 1 ELSE 0
        is_rush == IF (7 <= hour /\ hour <= 9) \/ (17 <= hour /\ hour <= 19)
                   THEN 1 ELSE 0
        rush_weekday == is_rush * (1 - is_weekend)
    IN  << Sin(hour, 24), Cos(hour, 24), Sin(dayofweek, 7), Cos(dayofweek, 7),
           Sin(dt.month, 12), Cos(dt.month, 12), Quot(dt.year - 2020, 5),
           Quot(is_weekend, 1), Quot(is_rush, 1), Quot(rush_weekday, 1) >>

create_time_features(timestamp) ==
    LET dt == DateOf(timestamp)
        hour == dt.hour
        dayofweek == dt.weekday
        is_weekend == IF dayofweek >= 5 THEN 1 ELSE 0
        is_rush == IF is_weekend = 0 /\ ((7 <= hour /\ hour <= 9) \/ (17 <= hour /\ hour <= 19))
                   THEN 1 ELSE 0
        rush_weekday == is_rush * (1 - is_weekend)
    IN  << Sin(hour, 24), Cos(hour, 24), Sin(dayofweek, 7), Cos(dayofweek, 7),
           Sin(dt.month, 12), Cos(dt.month, 12), Quot(dt.year - 2020, 5),
           Quot(is_weekend, 1), Quot(is_rush, 1), Quot(rush_weekday, 1) >>

(***************************************************************************)
(* process_historical_data                                                 *)
(***************************************************************************)

\* np.random.random(): the i-th draw of the generator in state seed, in
\* twentieths, so that variation = 0.9 + 0.2 * draw runs over 0.90 .. 1.09
RandomDraw(seed, i) == (seed * (3 * i + 19)) % 20

\* variation = 0.8 + 0.4 * draw, as predict_from_current draws it
VariationWide(seed, i) == 80 + 2 * RandomDraw(seed, i)

\* variation, in hundredths
Variation(seed, i) == 90 + RandomDraw(seed, i)

\* value * variation
Times(value, variation) == (value * variation) \div 100

\* current_time
CurrentTime(cts, now_) ==
    IF cts.kind = "none" \/ cts.kind = "string" THEN now_
    ELSE IF FromIsoFormat(cts).ok THEN FromIsoFormat(cts).hour
    ELSE now_

SyntheticData(latest_data, variation) ==
    HourlyData(Times(latest_data.CO, variation), Times(latest_data.NO2, variation),
               Times(latest_data.SO2, variation), Times(latest_data.O3, variation),
               Times(latest_data.PM25, variation), Times(latest_data.PM10, variation),
               Times(latest_data.AQI, variation), NoTimestamp)

DefaultData == HourlyData(500, 25000, 8000, 45000, 20000, 35000, 65000, NoTimestamp)

\* PadLoop appending the synthetic rows instead of inserting them at 0
RECURSIVE PadLoopAppend(_, _, _, _, _)
PadLoopAppend(padded, latest_data, seed, i, count) ==
    IF i >= count THEN padded
    ELSE PadLoopAppend(Append(padded, SyntheticData(latest_data, Variation(seed, i))),
                       latest_data, seed, i + 1, count)

\* for i in range(48 - data_length): padded_data.insert(0, synthetic_data)
RECURSIVE PadLoop(_, _, _, _, _)
PadLoop(padded, latest_data, seed, i, count) ==
    IF i >= count THEN padded
    ELSE PadLoop(<<SyntheticData(latest_data, Variation(seed, i))>> \o padded,
                 latest_data, seed, i + 1, count)

\* for i in range(48): padded_data.append(synthetic_data)
RECURSIVE DefaultLoop(_, _)
DefaultLoop(padded, i) ==
    IF i >= 48 THEN padded ELSE DefaultLoop(Append(padded, DefaultData), i + 1)

\* PaddedData padding one row too few
PaddedDataShort(hd, seed) ==
    LET data_length == Len(hd)
    IN  IF data_length < 48
        THEN IF data_length > 0
             THEN PadLoop(hd, hd[data_length], seed, 0, 47 - data_length)
             ELSE DefaultLoop(hd, 0)
        ELSE hd

\* padded_data after the padding block
PaddedData(hd, seed) ==
    LET data_length == Len(hd)
    IN  IF data_length < 48
        THEN IF data_length > 0
             THEN PadLoop(hd, hd[data_length], seed, 0, 48 - data_length)
             ELSE DefaultLoop(hd, 0)
        ELSE hd

\* padded_data[:48]
First48(padded) == SubSeq(padded, 1, Min(Len(padded), 48))

\* HourTimestamp counting back from 48 instead of 47
HourTimestampOffByOne(i, hour_data, current_time) ==
    IF hour_data.timestamp.kind # "none" /\ hour_data.timestamp.kind # "string"
    THEN IF FromIsoFormat(hour_data.timestamp).ok
         THEN FromIsoFormat(hour_data.timestamp).hour
         ELSE current_time - (48 - i)
    ELSE current_time - (48 - i)

\* hour_timestamp of row i (counted from 0, as enumerate does)
HourTimestamp(i, hour_data, current_time) ==
    IF hour_data.timestamp.kind # "none" /\ hour_data.timestamp.kind # "string"
    THEN IF FromIsoFormat(hour_data.timestamp).ok
         THEN FromIsoFormat(hour_data.timestamp).hour
         ELSE current_time - (47 - i)
    ELSE current_time - (47 - i)

RECURSIVE SumAqi(_, _, _)
SumAqi(padded, from, to) ==
    IF from > to THEN 0 ELSE padded[from + 1].AQI + SumAqi(padded, from + 1, to)

\* LagFeatures reading the 24-hour lag one row too late
LagFeaturesLag23(padded, i) ==
    LET hour_data == padded[i + 1]
        aqi_1h_ago == IF i > 0 THEN padded[i].AQI ELSE hour_data.AQI
        aqi_24h_ago == IF i >= 24 THEN padded[i - 22].AQI ELSE hour_data.AQI
        pm25_24h_ago == IF i >= 24 THEN padded[i - 22].PM25 ELSE hour_data.PM25
        start_idx == Max(0, i - 23)
        len_recent == i + 1 - start_idx
    IN  << Quot(aqi_1h_ago, 500000), Quot(aqi_24h_ago, 500000),
           Quot(pm25_24h_ago, 100000),
           Quot(SumAqi(padded, start_idx, i), len_recent * 500000),
           Quot(hour_data.AQI - aqi_1h_ago, Max(aqi_1h_ago, 1000)),
           Quot(hour_data.PM25, Max(hour_data.PM10, 1000)),
           [fn |-> "e-6", num |-> hour_data.CO * hour_data.NO2, den |-> 1000 * 50] >>

\* LagFeatures dividing by aqi_1h_ago and PM10 as they are
LagFeaturesNoFloor(padded, i) ==
    LET hour_data == padded[i + 1]
        aqi_1h_ago == IF i > 0 THEN padded[i].AQI ELSE hour_data.AQI
        aqi_24h_ago == IF i >= 24 THEN padded[i - 23].AQI ELSE hour_data.AQI
        pm25_24h_ago == IF i >= 24 THEN padded[i - 23].PM25 ELSE hour_data.PM25
        start_idx == Max(0, i - 23)
        len_recent == i + 1 - start_idx
    IN  << Quot(aqi_1h_ago, 500000), Quot(aqi_24h_ago, 500000),
           Quot(pm25_24h_ago, 100000),
           Quot(SumAqi(padded, start_idx, i), len_recent * 500000),
           Quot(hour_data.AQI - aqi_1h_ago, aqi_1h_ago),
           Quot(hour_data.PM25, hour_data.PM10),
           [fn |-> "e-6", num |-> hour_data.CO * hour_data.NO2, den |-> 1000 * 50] >>

\* the historical and aggregate features of row i (counted from 0)
LagFeatures(padded, i) ==
    LET hour_data == padded[i + 1]
        aqi_1h_ago == IF i > 0 THEN padded[i].AQI ELSE hour_data.AQI
        aqi_24h_ago == IF i >= 24 THEN padded[i - 23].AQI ELSE hour_data.AQI
        pm25_24h_ago == IF i >= 24 THEN padded[i - 23].PM25 ELSE hour_data.PM25
        start_idx == Max(0, i - 23)
        len_recent == i + 1 - start_idx
    IN  << Quot(aqi_1h_ago, 500000), Quot(aqi_24h_ago, 500000),
           Quot(pm25_24h_ago, 100000),
           Quot(SumAqi(padded, start_idx, i), len_recent * 500000),
           Quot(hour_data.AQI - aqi_1h_ago, Max(aqi_1h_ago, 1000)),
           Quot(hour_data.PM25, Max(hour_data.PM10, 1000)),
           [fn |-> "e-6", num |-> hour_data.CO * hour_data.NO2, den |-> 1000 * 50] >>

\* the normalized pollutant features of a row
PollutantFeatures(hour_data) ==
    << Quot(hour_data.CO, 3000), Quot(hour_data.NO2, 100000),
       Quot(hour_data.SO2, 50000), Quot(hour_data.O3, 150000),
       Quot(hour_data.PM25, 100000), Quot(hour_data.PM10, 150000),
       Quot(hour_data.AQI, 500000) >>

\* hour_features of row i (counted from 0)
HourFeatures(padded, i, current_time) ==
    PollutantFeatures(padded[i + 1])
    \o create_time_features(HourTimestamp(i, padded[i + 1], current_time))
    \o LagFeatures(padded, i)

\* the returned matrix, one row per element of padded_data[:48]
ProcessedSequence(padded, current_time) ==
    [r \in 1..Len(First48(padded)) |-> HourFeatures(padded, r - 1, current_time)]

HourTimestamps(padded, current_time) ==
    [r \in 1..Len(First48(padded)) |-> HourTimestamp(r - 1, padded[r], current_time)]

(***************************************************************************)
(* extract_optimized_input_from_history                                    *)
(***************************************************************************)
\* the sort key x.timestamp or "", as what decides the order of two texts:
\* "" comes first, ISO texts start with a digit and are ordered by their
\* hour, the text that does not parse ("not-a-date") and the placeholder
\* "string" start with a letter and come after them
TimestampKey(ts) ==
    IF ts.kind = "none" THEN <<0, 0>>
    ELSE IF ts.kind = "iso" THEN <<1, ts.hour>>
    ELSE IF ts.kind = "invalid" THEN <<2, 0>>
    ELSE <<3, 0>>

KeyLeq(a, b) == a[1] < b[1] \/ (a[1] = b[1] /\ a[2] <= b[2])

\* x put behind the elements of a sorted list whose key is not greater
InsertByTimestamp(sorted_data, x) ==
    LET before == Cardinality({j \in 1..Len(sorted_data) :
                      KeyLeq(TimestampKey(sorted_data[j].timestamp),
                             TimestampKey(x.timestamp))})
    IN  SubSeq(sorted_data, 1, before) \o <<x>>
        \o SubSeq(sorted_data, before + 1, Len(sorted_data))

\* sorted(historical_data, key=...), a stable sort, from element k on
RECURSIVE SortedByTimestamp(_, _, _)
SortedByTimestamp(sorted_data, historical, k) ==
    IF k > Len(historical) THEN sorted_data
    ELSE SortedByTimestamp(InsertByTimestamp(sorted_data, historical[k]),
                           historical, k + 1)

\* default_aqi, default_pm25, default_o3 (thousandths)
DefaultLag == [AQI |-> 50000, PM25 |-> 15000, O3 |-> 40000]

\* get_data_at_hour reading sorted_data[-hours_ago]
get_data_at_hour_from_last(sorted_data, hours_ago) ==
    LET data_length == Len(sorted_data)
    IN  IF data_length >= hours_ago
        THEN LET data_point == sorted_data[data_length - hours_ago + 1]
             IN  [AQI |-> data_point.AQI, PM25 |-> data_point.PM25,
                  O3 |-> data_point.O3]
        ELSE DefaultLag

\* get_data_at_hour: sorted_data[-(hours_ago + 1)] when the list is longer
\* than hours_ago
get_data_at_hour(sorted_data, hours_ago) ==
    LET data_length == Len(sorted_data)
    IN  IF data_length > hours_ago
        THEN LET data_point == sorted_data[data_length - hours_ago]
             IN  [AQI |-> data_point.AQI, PM25 |-> data_point.PM25,
                  O3 |-> data_point.O3]
        ELSE DefaultLag

\* the intervals, in the order of the fields of OptimizedAqiInput
LagHours == <<1, 3, 6, 12, 24>>

\* the function: the sorted list, the 15 values grouped by interval, and
\* whether an exception leaves it
extract_optimized_input_from_history(historical) ==
    LET sorted_data == SortedByTimestamp(<<>>, historical, 1)
    IN  [raised |-> FALSE,
         sorted_data |-> sorted_data,
         lags |-> [k \in 1..Len(LagHours) |->
                      get_data_at_hour(sorted_data, LagHours[k])]]

NotExtracted == [raised |-> FALSE, sorted_data |-> <<>>, lags |-> <<>>]

(***************************************************************************)
(* generate_mock_data and fetch_live_air_quality_data.  A value of the     *)
(* provider's response is <<v>>, v an integer number of tenths, or Null;   *)
(* a time entry is the hour it names.  The AQI field of a fetched          *)
(* observation is the mixed number calculate_aqi_from_pollutants returned. *)
(***************************************************************************)
\* base * variation * daily_cycle of generate_mock_data, left unevaluated:
\* base in thousandths, variation = 0.7 + (i % 7) * 0.1 in tenths,
\* daily_cycle = 1.0 + 0.3 * sin(2 * pi * i / 24)
MockValue(base, i) ==
    [base |-> base, variation |-> 7 + (i % 7), cycle |-> Sin(i, 24)]

\* the observation generate_mock_data appends in iteration i
MockHour(i, hours, current_time) ==
    [CO |-> MockValue(800, i), NO2 |-> MockValue(22100, i),
     SO2 |-> MockValue(8200, i), O3 |-> MockValue(45600, i),
     PM25 |-> MockValue(15500, i), PM10 |-> MockValue(28300, i),
     AQI |-> [fn |-> "calculate_aqi_from_pollutants", i |-> i],
     timestamp |-> IsoTimestamp(current_time - (hours - i - 1))]

generate_mock_data(hours, current_time) ==
    [k \in 1..Max(hours, 0) |-> MockHour(k - 1, hours, current_time)]

Null == <<>>

\* the six series in the order the loop tests them
SeriesNames == <<"pm10", "pm2_5", "carbon_monoxide", "nitrogen_dioxide",
                 "sulphur_dioxide", "ozone">>

\* the test "all values are available" at index i (counted from 0), from
\* the k-th series on: and stops at the first None, and an index past the
\* end of a series raises IndexError
RECURSIVE AllAvailable(_, _, _)
AllAvailable(hourly, i, k) ==
    IF k > Len(SeriesNames) THEN "True"
    ELSE IF i + 1 > Len(hourly[SeriesNames[k]]) THEN "IndexError"
    ELSE IF hourly[SeriesNames[k]][i + 1] = Null THEN "False"
    ELSE AllAvailable(hourly, i, k + 1)

\* times[i] + ":00Z"
UtcTimestamp(h) == [kind |-> "iso_utc", hour |-> h]

\* the observation built from index i; CO is divided by 1000 (tenths of
\* ug/m3 become thousandths of mg/m3, exact for the whole numbers of ug/m3
\* tried), the other fields keep their unit (tenths become thousandths);
\* co_mg * 1000 is the value received
LiveHour(hourly, i) ==
    LET at(name) == hourly[name][i + 1][1]
    IN  [CO |-> at("carbon_monoxide") \div 10,
         NO2 |-> at("nitrogen_dioxide") * 100,
         SO2 |-> at("sulphur_dioxide") * 100,
         O3 |-> at("ozone") * 100,
         PM25 |-> at("pm2_5") * 100,
         PM10 |-> at("pm10") * 100,
         AQI |-> calculate_aqi_from_pollutants(
                     at("pm2_5"), at("pm10"), at("ozone"),
                     at("nitrogen_dioxide"), at("sulphur_dioxide"),
                     at("carbon_monoxide")),
         timestamp |-> UtcTimestamp(hourly.time[i + 1])]

\* the loop with append in place of insert(0, ...)
RECURSIVE FetchLoopAppend(_, _, _, _)
FetchLoopAppend(hourly, hours, i, data) ==
    IF i < 0 \/ Len(data) >= hours
    THEN [raised |-> FALSE, historical_data |-> data]
    ELSE LET available == AllAvailable(hourly, i, 1)
         IN  IF available = "IndexError"
             THEN [raised |-> TRUE, historical_data |-> data]
             ELSE IF available = "True"
             THEN FetchLoopAppend(hourly, hours, i - 1,
                                  Append(data, LiveHour(hourly, i)))
             ELSE FetchLoopAppend(hourly, hours, i - 1, data)

\* for i in range(len(times) - 1, -1, -1), from index i on;
\* valid_data_count is len(historical_data)
RECURSIVE FetchLoop(_, _, _, _)
FetchLoop(hourly, hours, i, data) ==
    IF i < 0 \/ Len(data) >= hours
    THEN [raised |-> FALSE, historical_data |-> data]
    ELSE LET available == AllAvailable(hourly, i, 1)
         IN  IF available = "IndexError"
             THEN [raised |-> TRUE, historical_data |-> data]
             ELSE IF available = "True"
             THEN FetchLoop(hourly, hours, i - 1,
                            <<LiveHour(hourly, i)>> \o data)
             ELSE FetchLoop(hourly, hours, i - 1, data)

\* historical_data[:hours]
FirstHours(data, hours) == SubSeq(data, 1, Min(Len(data), Max(hours, 0)))

\* what requests.get, raise_for_status and json can raise
RequestFailures == {"ConnectionError", "Timeout", "HTTPError", "JSONDecodeError"}

\* fetch_live_air_quality_data: met is what the request met (a failure or
\* "ok" with the hourly arrays of the body), current_time what
\* datetime.now() returns.  raised says whether an exception leaves the
\* function.
fetch_live_air_quality_data(hours, met, current_time) ==
    IF met.outcome \in RequestFailures
    THEN [raised |-> FALSE, value |-> generate_mock_data(hours, current_time)]
    ELSE LET loop == FetchLoop(met.hourly, hours, Len(met.hourly.time) - 1, <<>>)
             data == loop.historical_data
         IN  IF loop.raised          \* except Exception
             THEN [raised |-> FALSE,
                   value |-> generate_mock_data(hours, current_time)]
             ELSE IF data = <<>> \/ \A k \in 1..Len(data) : data[k].AQI = Whole(0)
             THEN [raised |-> FALSE,
                   value |-> generate_mock_data(hours, current_time)]
             ELSE [raised |-> FALSE, value |-> FirstHours(data, hours)]

NoHourly == [time |-> <<>>, pm10 |-> <<>>, pm2_5 |-> <<>>,
             carbon_monoxide |-> <<>>, nitrogen_dioxide |-> <<>>,
             sulphur_dioxide |-> <<>>, ozone |-> <<>>]

NoProvider == [outcome |-> "none", hourly |-> NoHourly]

(***************************************************************************)
(* load_models.  The registry models is modelled by the set of names that  *)
(* have an entry.  What a load attempt meets is an outcome:                *)
(*   "missing"           os.path.exists(file_path) is False                *)
(*   "loaded"            the first load call returns an object             *)
(*   "load_raises"       every load call raises                            *)
(*   "no_tensorflow"     import tensorflow raises ImportError (lstm)       *)
(*   "import_raises"     import tensorflow raises another Exception (lstm) *)
(*   "loaded_safe_mode"  load_model(compile=False) raises and              *)
(*                       load_model(safe_mode=False) returns (lstm)        *)
(***************************************************************************)
\* the keys of model_files, in the order the loop visits them
ModelFiles == <<"lstm", "linear_regression", "xgboost", "random_forest">>

LstmOutcomes == {"no_tensorflow", "import_raises", "missing", "loaded",
                 "loaded_safe_mode", "load_raises"}

JoblibOutcomes == {"missing", "loaded", "load_raises"}

OutcomesOf(model_name) ==
    IF model_name = "lstm" THEN LstmOutcomes ELSE JoblibOutcomes

\* the body of the for loop without its outer try: joblib.load raising
\* leaves load_models
LoadOneUnguarded(registry, model_name, outcome) ==
    IF outcome \in {"loaded", "loaded_safe_mode"}
    THEN [models |-> registry \cup {model_name}, raised |-> FALSE]
    ELSE [models |-> registry,
          raised |-> model_name # "lstm" /\ outcome = "load_raises"]

\* one iteration of the for loop: the registry afterwards, and whether an
\* exception left the try statement
LoadOne(registry, model_name, outcome) ==
    IF model_name = "lstm"
    THEN IF outcome = "no_tensorflow"
         THEN [models |-> registry, raised |-> FALSE]   \* except ImportError
         ELSE IF outcome = "import_raises"
         THEN [models |-> registry, raised |-> FALSE]   \* outer except
         ELSE IF outcome = "missing"
         THEN [models |-> registry, raised |-> FALSE]
         ELSE IF outcome = "loaded"
         THEN [models |-> registry \cup {model_name}, raised |-> FALSE]
         ELSE IF outcome = "loaded_safe_mode"
         THEN [models |-> registry \cup {model_name}, raised |-> FALSE]
         ELSE [models |-> registry, raised |-> FALSE]   \* except safe_error
    ELSE IF outcome = "missing"
         THEN [models |-> registry, raised |-> FALSE]
         ELSE IF outcome = "loaded"
         THEN [models |-> registry \cup {model_name}, raised |-> FALSE]
         ELSE [models |-> registry, raised |-> FALSE]   \* outer except

\* the for loop from its i-th key on; an exception that left an iteration
\* would end the loop and leave load_models
RECURSIVE LoadLoop(_, _, _)
LoadLoop(registry, met, i) ==
    IF i > Len(ModelFiles)
    THEN [models |-> registry, raised |-> FALSE]
    ELSE LET r == LoadOne(registry, ModelFiles[i], met[ModelFiles[i]])
         IN  IF r.raised THEN r ELSE LoadLoop(r.models, met, i + 1)

load_models(registry, met) == LoadLoop(registry, met, 1)

NotLoading == [met |-> [n \in {} |-> ""], raised |-> FALSE]

(***************************************************************************)
(* The prediction endpoints.  A backend object is a black box: called, it  *)
(* raises or returns numbers.  Numbers a backend returns are integers in   *)
(* units of 1 / Unit.                                                      *)
(***************************************************************************)
Unit == 1000 * 100

HTTP_200_OK == 200
HTTP_400_BAD_REQUEST == 400
HTTP_422_UNPROCESSABLE_ENTITY == 422
HTTP_500_INTERNAL_SERVER_ERROR == 500
HTTP_503_SERVICE_UNAVAILABLE == 503

get_aqi_category(aqi_value) ==
    IF aqi_value <= 50 * Unit THEN "Good"
    ELSE IF aqi_value <= 100 * Unit THEN "Moderate"
    ELSE IF aqi_value <= 150 * Unit THEN "Unhealthy for Sensitive Groups"
    ELSE IF aqi_value <= 200 * Unit THEN "Unhealthy"
    ELSE IF aqi_value <= 300 * Unit THEN "Very Unhealthy"
    ELSE "Hazardous"

\* round(x, 2): x in units of 1 / Unit, the result in hundredths; a value
\* half way between two hundredths goes to the even one
Round2(x) ==
    LET step == Unit \div 100
        lo == x \div step
        rest == x % step
    IN  IF 2 * rest < step THEN lo
        ELSE IF 2 * rest > step THEN lo + 1
        ELSE IF lo % 2 = 0 THEN lo ELSE lo + 1

\* one entry of "predictions": {"aqi": round(p, 2), "category": ...(p)}
Horizon(predicted) ==
    [aqi |-> Round2(predicted), category |-> get_aqi_category(predicted)]

NotCalled == [called |-> FALSE, raised |-> FALSE, values |-> <<>>]

\* raise HTTPException(status_code=...)
HTTPException(status_code, processed, looked_up, backend) ==
    [status_code |-> status_code, predictions |-> <<>>,
     processed |-> processed, looked_up |-> looked_up, backend |-> backend]

NoResponse == HTTPException(0, FALSE, FALSE, NotCalled)

NoRequest == [endpoint |-> "none", model_name |-> "", historical_data |-> <<>>,
              hours |-> 0]

NoLive == [running |-> FALSE, model_name |-> "", hours |-> 0]

valid_models == {"lstm", "linear_regression", "xgboost", "random_forest"}

\* the two checks with their order exchanged
CheckModelLoadedFirst(registry, model_name) ==
    IF model_name \notin registry
    THEN HTTP_503_SERVICE_UNAVAILABLE
    ELSE IF model_name \notin valid_models
    THEN HTTP_400_BAD_REQUEST
    ELSE HTTP_200_OK

\* the two checks that open predict_aqi, predict_live and
\* predict_from_current: the status they raise, HTTP_200_OK when they pass
CheckModel(registry, model_name) ==
    IF model_name \notin valid_models
    THEN HTTP_400_BAD_REQUEST
    ELSE IF model_name \notin registry
    THEN HTTP_503_SERVICE_UNAVAILABLE
    ELSE HTTP_200_OK

\* the prediction block with an except clause that answers instead of
\* raising
PredictSwallow(registry, model_name, behaviour) ==
    IF model_name \notin registry \/ behaviour.raises
    THEN [status_code |-> HTTP_200_OK,
          predictions |-> [h \in 1..3 |-> Horizon(0)],
          processed |-> TRUE, looked_up |-> model_name \in registry,
          backend |-> [called |-> model_name \in registry, raised |-> TRUE,
                       values |-> <<>>]]
    ELSE [status_code |-> HTTP_200_OK,
          predictions |-> [h \in 1..3 |-> Horizon(behaviour.values[h])],
          processed |-> TRUE, looked_up |-> TRUE,
          backend |-> [called |-> TRUE, raised |-> FALSE,
                       values |-> behaviour.values]]

\* the try block shared by predict_aqi and predict_live from
\* process_historical_data on: models[model_name] is read (KeyError when the
\* name has no entry), the backend is called and its three numbers are
\* reported; except Exception turns every exception into a 500
Predict(registry, model_name, behaviour) ==
    IF model_name \notin registry
    THEN HTTPException(HTTP_500_INTERNAL_SERVER_ERROR, TRUE, FALSE, NotCalled)
    ELSE IF behaviour.raises
    THEN HTTPException(HTTP_500_INTERNAL_SERVER_ERROR, TRUE, TRUE,
                       [called |-> TRUE, raised |-> TRUE, values |-> <<>>])
    ELSE [status_code |-> HTTP_200_OK,
          predictions |-> [h \in 1..3 |-> Horizon(behaviour.values[h])],
          processed |-> TRUE, looked_up |-> TRUE,
          backend |-> [called |-> TRUE, raised |-> FALSE,
                       values |-> behaviour.values]]

\* AqiPredictionInput: min_items=1, max_items=48; the fields of HourlyData
\* are floats without bounds
ValidAqiPredictionInput(data) ==
    Len(data) >= 1 /\ Len(data) <= 48

predict_aqi(registry, model_name, data, behaviour) ==
    IF CheckModel(registry, model_name) # HTTP_200_OK
    THEN HTTPException(CheckModel(registry, model_name), FALSE, FALSE, NotCalled)
    ELSE Predict(registry, model_name, behaviour)

\* predict_from_current: the same two checks, then 48 simulated rows are
\* handed to predict_aqi inside try / except Exception
predict_from_current(registry, model_name, behaviour) ==
    IF CheckModel(registry, model_name) # HTTP_200_OK
    THEN HTTPException(CheckModel(registry, model_name), FALSE, FALSE, NotCalled)
    ELSE LET inner == predict_aqi(registry, model_name, <<>>, behaviour)
         IN  IF inner.status_code = HTTP_200_OK
             THEN inner
             ELSE [inner EXCEPT !.status_code = HTTP_500_INTERNAL_SERVER_ERROR]

\* predict_live after its two checks: input_hours is the number of observations
\* fetch_live_air_quality_data returned
predict_live_try(registry, model_name, input_hours, behaviour) ==
    IF input_hours = 0
    THEN HTTPException(HTTP_503_SERVICE_UNAVAILABLE, FALSE, FALSE, NotCalled)
    ELSE IF input_hours > 48 \* AqiPredictionInput(...) raises ValidationError
    THEN HTTPException(HTTP_500_INTERNAL_SERVER_ERROR, FALSE, FALSE, NotCalled)
    ELSE Predict(registry, model_name, behaviour)

\* the 24 hourly values predict_xgboost_optimized derives from what
\* model.predict(input_features)[0] is: a Python float (scaled by
\* 1.0 + hour * 0.02, exact for the whole thousandths tried), or a sequence
\* cut to 24 entries
HourlyPredictions(output) ==
    IF output.shape = "float"
    THEN [hour \in 1..24 |-> (output.values[1] \div 100) * (100 + 2 * hour)]
    ELSE [i \in 1..Min(24, Len(output.values)) |-> output.values[i]]

predict_xgboost_optimized(registry, behaviour) ==
    IF "xgboost" \notin registry
    THEN HTTPException(HTTP_503_SERVICE_UNAVAILABLE, FALSE, FALSE, NotCalled)
    ELSE IF behaviour.raises
    THEN HTTPException(HTTP_500_INTERNAL_SERVER_ERROR, TRUE, TRUE,
                       [called |-> TRUE, raised |-> TRUE, values |-> <<>>])
    ELSE LET hourly_predictions == HourlyPredictions(behaviour)
         IN  IF Len(hourly_predictions) < 24     \* IndexError
             THEN HTTPException(HTTP_500_INTERNAL_SERVER_ERROR, TRUE, TRUE,
                                [called |-> TRUE, raised |-> FALSE,
                                 values |-> behaviour.values])
             ELSE [status_code |-> HTTP_200_OK,
                   predictions |-> <<Horizon(hourly_predictions[8]),
                                     Horizon(hourly_predictions[12]),
                                     Horizon(hourly_predictions[24])>>,
                   processed |-> TRUE, looked_up |-> TRUE,
                   backend |-> [called |-> TRUE, raised |-> FALSE,
                                values |-> <<hourly_predictions[8],
                                             hourly_predictions[12],
                                             hourly_predictions[24]>>]]

\* predict_from_history: everything, the call of predict_xgboost_optimized
\* included, runs inside try / except Exception, and HTTPException is an
\* Exception
predict_from_history(registry, behaviour) ==
    LET inner == predict_xgboost_optimized(registry, behaviour)
    IN  IF inner.status_code = HTTP_200_OK
        THEN inner
        ELSE [inner EXCEPT !.status_code = HTTP_500_INTERNAL_SERVER_ERROR]

(***************************************************************************)
(* Inputs                                                                  *)
(***************************************************************************)
MaxLen == 50        \* longest historical_data tried
MaxSeed == 1        \* generator states tried
BaseTime == 487812  \* 2025-08-25T12:00, a Monday

\* concentrations in tenths: every breakpoint and its neighbours, values
\* below 0 and values above the top band
Pm25Values == {-10, 0, 100, 119, 120, 121, 353, 354, 355, 553, 554, 555,
               1503, 1504, 1505, 2503, 2504, 2505, 4000, 4999, 5000, 5001, 6000}
Pm10Values == {200, 4000}
O3Values == {-500, 0, 1000, 3000}
No2Values == {0, 500, 1500}
So2Values == {0, 300}
CoValues == {0, 20000}

\* the k-th observation (k = 1 is the oldest) of a series, in thousandths
Observation(profile, k, ts) ==
    IF profile = "typical"
    THEN HourlyData((5 + (k % 3)) * 100, (250 + k) * 100, 8000, (450 + k) * 100,
                    (200 + k) * 100, (350 + k) * 100, (650 + 10 * k) * 100, ts)
    ELSE IF profile = "zero"
    THEN HourlyData(0, 0, 0, 0, 0, 0, 0, ts)
    ELSE HourlyData(3000, 60000 + 100 * k, 0 - 100 * k, 0, 999900, 0 - 100 * k,
                    IF k % 2 = 0 THEN 500000 + 100 * k ELSE 0 - 5000 - 100 * k, ts)

\* the timestamp of the k-th of n observations: none, hourly ISO texts
\* whose newest is lag hours before BaseTime, or a mix of texts that do
\* not parse
TimestampOf(mode, k, n) ==
    IF mode.kind = "iso" THEN IsoTimestamp(BaseTime - mode.lag - (n - k))
    ELSE IF mode.kind = "none" THEN NoTimestamp
    ELSE IF k % 3 = 0 THEN StringTimestamp
    ELSE IF k % 3 = 1 THEN InvalidTimestamp
    ELSE NoTimestamp

\* the series tried: a value profile and a timestamp mode
Scenarios ==
    {[profile |-> "typical", kind |-> "none", lag |-> 0],
     [profile |-> "typical", kind |-> "mixed", lag |-> 0],
     [profile |-> "typical", kind |-> "iso", lag |-> 0],
     [profile |-> "typical", kind |-> "iso", lag |-> 1],
     [profile |-> "zero", kind |-> "none", lag |-> 0],
     [profile |-> "extreme", kind |-> "none", lag |-> 0],
     [profile |-> "extreme", kind |-> "iso", lag |-> 1]}

Series(scenario, n) ==
    [k \in 1..n |-> Observation(scenario.profile, k, TimestampOf(scenario, k, n))]

\* current_timestamp together with what datetime.now() returns
Clocks ==
    {[cts |-> NoTimestamp, now |-> BaseTime + 1],
     [cts |-> StringTimestamp, now |-> BaseTime + 2],
     [cts |-> InvalidTimestamp, now |-> BaseTime + 1],
     [cts |-> IsoTimestamp(BaseTime), now |-> BaseTime + 1]}

NoPollutants == [pm25 |-> 0, pm10 |-> 0, o3 |-> 0, no2 |-> 0, so2 |-> 0, co |-> 0]

\* the provider's responses tried: MaxTimes bounds the length of "time"
MaxTimes == 4

\* the hours argument tried
FetchHours == {1, 2, 4}

HourKinds == {"full", "zero", "null_pm10", "null_ozone"}

BaseValue(name) ==
    IF name = "pm10" THEN 283
    ELSE IF name = "pm2_5" THEN 155
    ELSE IF name = "carbon_monoxide" THEN 8000
    ELSE IF name = "nitrogen_dioxide" THEN 221
    ELSE IF name = "sulphur_dioxide" THEN 82
    ELSE 456

\* entry j (counted from 1) of a series of the response
Entry(name, kind, j) ==
    IF kind = "zero" THEN <<0>>
    ELSE IF kind = "null_pm10" /\ name = "pm10" THEN Null
    ELSE IF kind = "null_ozone" /\ name = "ozone" THEN Null
    ELSE <<BaseValue(name) + 10 * j>>

\* the "hourly" object: kinds[j] says what hour j holds; defect says how
\* the arrays are malformed.  An absent key reads as the empty list.
Hourly(kinds, defect) ==
    LET n == Len(kinds)
        full(name) == [j \in 1..n |-> Entry(name, kinds[j], j)]
        time == [j \in 1..n |-> BaseTime - (n - j)]
    IN  [time |-> IF defect = "time_short" THEN SubSeq(time, 1, n - 1) ELSE time,
         pm10 |-> full("pm10"),
         pm2_5 |-> full("pm2_5"),
         carbon_monoxide |-> IF defect = "carbon_monoxide_missing" THEN <<>>
                             ELSE full("carbon_monoxide"),
         nitrogen_dioxide |-> full("nitrogen_dioxide"),
         sulphur_dioxide |-> full("sulphur_dioxide"),
         ozone |-> IF defect = "ozone_short" THEN SubSeq(full("ozone"), 1, n - 1)
                   ELSE IF defect = "ozone_long"
                   THEN Append(full("ozone"), <<BaseValue("ozone")>>)
                   ELSE full("ozone")]

Defects == {"none", "carbon_monoxide_missing", "ozone_short", "ozone_long",
            "time_short"}

ProviderOutcomes ==
    {[outcome |-> failure, hourly |-> NoHourly] : failure \in RequestFailures}
    \cup {[outcome |-> "ok", hourly |-> Hourly(kinds, defect)] :
            kinds \in UNION {[1..n -> HourKinds] : n \in 0..MaxTimes},
            defect \in Defects}

NotFetched == [raised |-> FALSE, value |-> <<>>]

(***************************************************************************)
(* The state machine: a call is made when no call is in progress, runs to  *)
(* its return, and Return discards its values (they are constructed fresh  *)
(* per call).                                                              *)
(***************************************************************************)
Init ==
    /\ op = "idle"
    /\ pollutants = NoPollutants
    /\ total_aqi = Whole(0)
    /\ historical_data = <<>>
    /\ current_timestamp = NoTimestamp
    /\ now = BaseTime
    /\ padded_data = <<>>
    /\ hour_timestamps = <<>>
    /\ processed_sequence = <<>>
    /\ optimized_input = NotExtracted
    /\ hours_arg = 0
    /\ provider = NoProvider
    /\ fetched = NotFetched
    /\ models = {}
    /\ load_outcomes = NotLoading
    /\ request = NoRequest
    /\ response = NoResponse
    /\ live = NoLive

CalculateAqi ==
    /\ op = "idle"
    /\ \E pm25 \in Pm25Values, pm10 \in Pm10Values, o3 \in O3Values,
          no2 \in No2Values, so2 \in So2Values, co \in CoValues :
        /\ op' = "calculate_aqi_from_pollutants"
        /\ pollutants' = [pm25 |-> pm25, pm10 |-> pm10, o3 |-> o3, no2 |-> no2,
                          so2 |-> so2, co |-> co]
        /\ total_aqi' = calculate_aqi_from_pollutants(pm25, pm10, o3, no2, so2, co)
        /\ historical_data' = <<>>
        /\ current_timestamp' = NoTimestamp
        /\ now' = BaseTime
        /\ padded_data' = <<>>
        /\ hour_timestamps' = <<>>
        /\ processed_sequence' = <<>>
    /\ optimized_input' = NotExtracted
    /\ UNCHANGED fetchVars
    /\ UNCHANGED apiVars

ProcessHistoricalData ==
    /\ op = "idle"
    /\ \E n \in 0..MaxLen, scenario \in Scenarios, clock \in Clocks,
          seed \in 0..MaxSeed :
        LET hd == Series(scenario, n)
            cts == clock.cts
            now_ == clock.now
            padded == PaddedData(hd, seed)
            current_time == CurrentTime(cts, now_)
        IN  /\ op' = "process_historical_data"
            /\ historical_data' = hd
            /\ current_timestamp' = cts
            /\ now' = now_
            /\ padded_data' = padded
            /\ hour_timestamps' = HourTimestamps(padded, current_time)
            /\ processed_sequence' = ProcessedSequence(padded, current_time)
            /\ pollutants' = NoPollutants
            /\ total_aqi' = Whole(0)
    /\ optimized_input' = NotExtracted
    /\ UNCHANGED fetchVars
    /\ UNCHANGED apiVars

\* fetch_live_air_quality_data(latitude, longitude, hours)
FetchLiveAirQualityData ==
    /\ op = "idle"
    /\ \E hours \in FetchHours, met \in ProviderOutcomes, now_ \in {BaseTime + 1} :
        /\ op' = "fetch_live_air_quality_data"
        /\ hours_arg' = hours
        /\ provider' = met
        /\ now' = now_
        /\ fetched' = fetch_live_air_quality_data(hours, met, now_)
    /\ UNCHANGED <<pollutants, total_aqi, historical_data, current_timestamp,
                   padded_data, hour_timestamps, processed_sequence,
                   optimized_input>>
    /\ UNCHANGED apiVars

\* the order in which a series is handed over: as it is, or newest first
Reversed(data) == [k \in 1..Len(data) |-> data[Len(data) + 1 - k]]

\* extract_optimized_input_from_history(historical_data)
ExtractOptimizedInput ==
    /\ op = "idle"
    /\ \E n \in 0..MaxLen, scenario \in Scenarios, newest_first \in BOOLEAN :
        LET hd == IF newest_first THEN Reversed(Series(scenario, n))
                  ELSE Series(scenario, n)
        IN  /\ op' = "extract_optimized_input_from_history"
            /\ historical_data' = hd
            /\ optimized_input' = extract_optimized_input_from_history(hd)
    /\ UNCHANGED <<pollutants, total_aqi, current_timestamp, now, padded_data,
                   hour_timestamps, processed_sequence>>
    /\ UNCHANGED fetchVars
    /\ UNCHANGED apiVars

Return ==
    /\ op # "idle"
    /\ op' = "idle"
    /\ pollutants' = NoPollutants
    /\ total_aqi' = Whole(0)
    /\ historical_data' = <<>>
    /\ current_timestamp' = NoTimestamp
    /\ now' = BaseTime
    /\ padded_data' = <<>>
    /\ hour_timestamps' = <<>>
    /\ processed_sequence' = <<>>
    /\ optimized_input' = NotExtracted
    /\ hours_arg' = 0
    /\ provider' = NoProvider
    /\ fetched' = NotFetched
    /\ UNCHANGED apiVars

Next ==
    \/ CalculateAqi
    \/ ProcessHistoricalData
    \/ FetchLiveAirQualityData
    \/ ExtractOptimizedInput
    \/ Return

Spec == Init /\ [][Next]_vars

\* what handling a request leaves in the registry: the handlers only read
\* models (model_name not in models, models[model_name])
RegistryEvicting(registry, model_name) == registry \ {model_name}

RegistryAfterRequest(registry, model_name) == registry

(***************************************************************************)
(* The served application.  load_models runs once, before any request.     *)
(* The async endpoints run on the event loop and are atomic; predict_live  *)
(* is a plain def, runs in the thread pool and blocks in requests.get, so  *)
(* other requests are handled between its checks and its prediction.       *)
(***************************************************************************)
\* model names requested: the four valid ones and one that is not
ModelNames == valid_models \cup {"svm"}

\* predicted_8h, predicted_12h, predicted_24h as backends return them, in
\* units of 1 / Unit: ordinary values, values that round(x, 2) moves across
\* a category threshold, the thresholds themselves, values below 0 and
\* above 500
Predicted ==
    {<<4250000, 6100000, 9875000>>,
     <<5000400, 5000000, 10000400>>,
     <<15000000, 20000049, 30000100>>,
     <<0 - 1250000, 0, 50000000>>,
     <<61250000, 50000100, 0 - 300>>}

Behaviours ==
    {[raises |-> TRUE, shape |-> "none", values |-> <<>>]}
    \cup {[raises |-> FALSE, shape |-> "triple", values |-> v] : v \in Predicted}

\* what models["xgboost"].predict(input_features)[0] is: a float, 24
\* values, fewer than 24 values
XgboostBehaviours ==
    {[raises |-> TRUE, shape |-> "none", values |-> <<>>],
     [raises |-> FALSE, shape |-> "float", values |-> <<4250000>>],
     [raises |-> FALSE, shape |-> "float", values |-> <<0 - 1250000>>],
     [raises |-> FALSE, shape |-> "float", values |-> <<40000000>>],
     [raises |-> FALSE, shape |-> "array",
      values |-> [i \in 1..24 |-> 4000000 + 125050 * i]],
     [raises |-> FALSE, shape |-> "array",
      values |-> [i \in 1..25 |-> 2500000 * i - 2000000]],
     [raises |-> FALSE, shape |-> "array",
      values |-> [i \in 1..10 |-> 4000000 + 125050 * i]]}

\* request bodies: no observation, 2, 48 and 49 ordinary ones, one with a
\* negative PM2.5, one whose AQI is above 500
Bodies ==
    {Series([profile |-> "typical", kind |-> "none", lag |-> 0], n) :
        n \in {0, 2, 48, 49}}
    \cup {<<HourlyData(500, 25000, 8000, 45000, 0 - 12000, 35000, 65000,
                       NoTimestamp)>>,
          <<Observation("typical", 1, NoTimestamp),
            HourlyData(500, 25000, 8000, 45000, 20000, 35000, 612000,
                       NoTimestamp)>>}

\* the hours query parameter of predict_live (ge=1, le=120)
LiveHours == {0, 1, 48, 49, 121}

ApiInit ==
    /\ op = "boot"
    /\ pollutants = NoPollutants
    /\ total_aqi = Whole(0)
    /\ historical_data = <<>>
    /\ current_timestamp = NoTimestamp
    /\ now = BaseTime
    /\ padded_data = <<>>
    /\ hour_timestamps = <<>>
    /\ processed_sequence = <<>>
    /\ optimized_input = NotExtracted
    /\ hours_arg = 0
    /\ provider = NoProvider
    /\ fetched = NotFetched
    /\ models = {}
    /\ load_outcomes = NotLoading
    /\ request = NoRequest
    /\ response = NoResponse
    /\ live = NoLive

\* the startup hook
LoadModels ==
    /\ op = "boot"
    /\ \E met \in [valid_models -> LstmOutcomes] :
        /\ \A n \in valid_models : met[n] \in OutcomesOf(n)
        /\ LET r == load_models(models, met)
           IN  /\ models' = r.models
               /\ load_outcomes' = [met |-> met, raised |-> r.raised]
    /\ op' = "load_models"
    /\ UNCHANGED <<request, response, live>>
    /\ UNCHANGED pureVars
    /\ UNCHANGED fetchVars

\* load_models returned: the application starts to serve
StartupComplete ==
    /\ op = "load_models"
    /\ ~load_outcomes.raised
    /\ op' = "idle"
    /\ load_outcomes' = NotLoading
    /\ UNCHANGED <<models, request, response, live>>
    /\ UNCHANGED pureVars
    /\ UNCHANGED fetchVars

\* what every endpoint leaves alone
Handled(model_name) ==
    /\ models' = RegistryAfterRequest(models, model_name)
    /\ UNCHANGED load_outcomes
    /\ UNCHANGED pureVars
    /\ UNCHANGED fetchVars

\* POST /predict_aqi/{model_name}: the body is validated, then the handler
\* runs
PredictAqi ==
    /\ op = "idle"
    /\ \E model_name \in ModelNames, data \in Bodies, behaviour \in Behaviours :
        /\ request' = [endpoint |-> "predict_aqi", model_name |-> model_name,
                       historical_data |-> data, hours |-> 0]
        /\ response' =
              IF ValidAqiPredictionInput(data)
              THEN predict_aqi(models, model_name, data, behaviour)
              ELSE HTTPException(HTTP_422_UNPROCESSABLE_ENTITY, FALSE, FALSE,
                                 NotCalled)
        /\ Handled(model_name)
    /\ op' = "predict_aqi"
    /\ UNCHANGED live

\* POST /predict_from_current/{model_name}
PredictFromCurrent ==
    /\ op = "idle"
    /\ \E model_name \in ModelNames, behaviour \in Behaviours :
        /\ request' = [endpoint |-> "predict_from_current",
                       model_name |-> model_name,
                       historical_data |-> <<>>, hours |-> 0]
        /\ response' = predict_from_current(models, model_name, behaviour)
        /\ Handled(model_name)
    /\ op' = "predict_from_current"
    /\ UNCHANGED live

\* POST /predict_xgboost_optimized
PredictXgboostOptimized ==
    /\ op = "idle"
    /\ \E behaviour \in XgboostBehaviours :
        /\ request' = [endpoint |-> "predict_xgboost_optimized",
                       model_name |-> "xgboost",
                       historical_data |-> <<>>, hours |-> 0]
        /\ response' = predict_xgboost_optimized(models, behaviour)
    /\ Handled("xgboost")
    /\ op' = "predict_xgboost_optimized"
    /\ UNCHANGED live

\* POST /predict_from_history
PredictFromHistory ==
    /\ op = "idle"
    /\ \E data \in Bodies, behaviour \in XgboostBehaviours :
        /\ request' = [endpoint |-> "predict_from_history",
                       model_name |-> "xgboost",
                       historical_data |-> data, hours |-> 0]
        /\ response' =
              IF ValidAqiPredictionInput(data)
              THEN predict_from_history(models, behaviour)
              ELSE HTTPException(HTTP_422_UNPROCESSABLE_ENTITY, FALSE, FALSE,
                                 NotCalled)
    /\ Handled("xgboost")
    /\ op' = "predict_from_history"
    /\ UNCHANGED live

\* POST /predict_live/{model_name}, up to the call of
\* fetch_live_air_quality_data: a request that fails validation or a check
\* is answered at once, another one goes on in its thread
PredictLiveBegin ==
    /\ op = "idle"
    /\ ~live.running
    /\ \E model_name \in ModelNames, hours \in LiveHours :
        LET checked == IF hours < 1 \/ hours > 120
                       THEN HTTP_422_UNPROCESSABLE_ENTITY
                       ELSE CheckModel(models, model_name)
        IN  /\ Handled(model_name)
            /\ IF checked = HTTP_200_OK
               THEN /\ live' = [running |-> TRUE, model_name |-> model_name,
                                hours |-> hours]
                    /\ UNCHANGED <<op, request, response>>
               ELSE /\ op' = "predict_live"
                    /\ request' = [endpoint |-> "predict_live",
                                   model_name |-> model_name,
                                   historical_data |-> <<>>, hours |-> hours]
                    /\ response' = HTTPException(checked, FALSE, FALSE, NotCalled)
                    /\ UNCHANGED live

\* predict_live from the return of fetch_live_air_quality_data on; the
\* fetch returned at least one and at most hours observations
PredictLiveFinish ==
    /\ op = "idle"
    /\ live.running
    /\ \E input_hours \in {1, live.hours}, behaviour \in Behaviours :
        /\ request' = [endpoint |-> "predict_live",
                       model_name |-> live.model_name,
                       historical_data |-> <<>>, hours |-> live.hours]
        /\ response' = predict_live_try(models, live.model_name, input_hours,
                                        behaviour)
    /\ Handled(live.model_name)
    /\ live' = NoLive
    /\ op' = "predict_live"

\* the response is sent
Respond ==
    /\ op \notin {"boot", "load_models", "idle"}
    /\ op' = "idle"
    /\ request' = NoRequest
    /\ response' = NoResponse
    /\ UNCHANGED <<models, load_outcomes, live>>
    /\ UNCHANGED pureVars
    /\ UNCHANGED fetchVars

ApiNext ==
    \/ LoadModels
    \/ StartupComplete
    \/ PredictAqi
    \/ PredictFromCurrent
    \/ PredictXgboostOptimized
    \/ PredictFromHistory
    \/ PredictLiveBegin
    \/ PredictLiveFinish
    \/ Respond

ApiSpec == ApiInit /\ [][ApiNext]_vars


(***************************************************************************)
(* Properties of calculate_aqi_from_pollutants                             *)
(***************************************************************************)
Calculated == op = "calculate_aqi_from_pollutants"

SecondaryZero ==
    pollutants.o3 = 0 /\ pollutants.no2 = 0 /\ pollutants.so2 = 0 /\ pollutants.co = 0

\* the result for another pm25 and the other arguments of the call
ResultFor(pm25) ==
    calculate_aqi_from_pollutants(pm25, pollutants.pm10, pollutants.o3,
                                  pollutants.no2, pollutants.so2, pollutants.co)

\* C1: for every combination of pollutant inputs the returned value v
\* satisfies 0 <= v <= 500.
C1_AqiInRange ==
    Calculated => Leq(Whole(0), total_aqi) /\ Leq(total_aqi, Whole(500))

\* a call whose sum is negative and is clamped to 0
C1_Witness ==
    Calculated /\ pollutants.pm25 < 0 /\ pollutants.o3 < 0 /\ total_aqi = Whole(0)

\* C2: the result is monotonic non-decreasing in PM2.5: with the other
\* arguments equal, a smaller or equal pm25 never gives a larger result,
\* across every band boundary and above 500.
C2_MonotonicInPm25 ==
    Calculated =>
        \A pm25_a \in Pm25Values :
            pm25_a <= pollutants.pm25 => Leq(ResultFor(pm25_a), total_aqi)

\* a call just above the breakpoint 35.4 whose result exceeds the result at
\* the breakpoint
C2_Witness ==
    Calculated /\ pollutants.pm25 = 355 /\ Less(ResultFor(354), total_aqi)

C3_Scenario ==
    /\ Calculated
    /\ pollutants.pm25 = 4000
    /\ pollutants.pm10 = 4000
    /\ SecondaryZero

\* C3 as stated: calculate(pm25=400, pm10=400, o3=0, no2=0, so2=0, co=0)
\* returns 500.
C3_Original == C3_Scenario => total_aqi = Whole(500)

\* C3 amended: pm25 = 400 lies inside the top band, and the call returns
\* 301 + 199 / 249.6 * 149.6 = 420 + 85/312; with the secondary pollutants
\* at 0 the result is 500 exactly when pm25 >= 500.
C3_TopBand ==
    /\ C3_Scenario => total_aqi = Plus(Whole(420), Ratio(85, 312))
    /\ Calculated /\ SecondaryZero =>
           (total_aqi = Whole(500) <=> pollutants.pm25 >= 5000)

C3_Witness == C3_Scenario /\ total_aqi.w = 420

\* the breakpoint bands of the comment, concentrations in tenths
Bands ==
    << [c_lo |-> 0, c_hi |-> 120, i_lo |-> 0, i_hi |-> 50],
       [c_lo |-> 120, c_hi |-> 354, i_lo |-> 51, i_hi |-> 100],
       [c_lo |-> 354, c_hi |-> 554, i_lo |-> 101, i_hi |-> 150],
       [c_lo |-> 554, c_hi |-> 1504, i_lo |-> 151, i_hi |-> 200],
       [c_lo |-> 1504, c_hi |-> 2504, i_lo |-> 201, i_hi |-> 300],
       [c_lo |-> 2504, c_hi |-> 5000, i_lo |-> 301, i_hi |-> 500] >>

\* (i_hi - i_lo) / (c_hi - c_lo) * (c - c_lo) + i_lo
Interpolate(band, c) ==
    Plus(Ratio((band.i_hi - band.i_lo) * (c - band.c_lo), band.c_hi - band.c_lo),
         Whole(band.i_lo))

\* C4 as stated: with the secondary pollutants at 0, for c inside a band
\* [c_lo, c_hi] the result is the interpolation of that band.
C4_Original ==
    Calculated /\ SecondaryZero =>
        \A b \in 1..Len(Bands) :
            Bands[b].c_lo <= pollutants.pm25 /\ pollutants.pm25 <= Bands[b].c_hi
                => total_aqi = Interpolate(Bands[b], pollutants.pm25)

\* C4 amended: the same for c_lo < c <= c_hi (0 <= c <= 12 in the first
\* band): a breakpoint belongs to the band below it.  In particular
\* pm25 = 10 gives 10 / 12 * 50, which is at most 50.
C4_BandInterpolation ==
    Calculated /\ SecondaryZero =>
        /\ \A b \in 1..Len(Bands) :
               /\ (Bands[b].c_lo < pollutants.pm25
                      \/ (b = 1 /\ Bands[b].c_lo = pollutants.pm25))
               /\ pollutants.pm25 <= Bands[b].c_hi
               => total_aqi = Interpolate(Bands[b], pollutants.pm25)
        /\ pollutants.pm25 = 100 =>
               total_aqi = Ratio(10 * 50, 12) /\ Leq(total_aqi, Whole(50))

\* the scenario pm25 = 10, whose result is 41 + 2/3
C4_Witness ==
    /\ Calculated
    /\ SecondaryZero
    /\ pollutants.pm25 = 100
    /\ total_aqi = Plus(Whole(41), Ratio(2, 3))

(***************************************************************************)
(* Properties of process_historical_data                                   *)
(***************************************************************************)
Processed == op = "process_historical_data"

\* the rows the feature loop runs over
Rows == First48(padded_data)

\* the time current_timestamp stands for, datetime.now() when it is absent
\* or does not parse
TheCurrentTime ==
    IF current_timestamp.kind = "iso" THEN current_timestamp.hour ELSE now

\* C5: for every input series of length 0 to 48 the history is normalized
\* to exactly 48 rows and 48 feature rows are returned.
C5_Exactly48Rows ==
    Processed /\ Len(historical_data) <= 48 =>
        Len(Rows) = 48 /\ Len(processed_sequence) = 48

\* a single observation padded to 48 rows
C5_Witness ==
    Processed /\ Len(historical_data) = 1 /\ Len(processed_sequence) = 48

\* C6: for every input of length 1 to 48 the last normalized row is the
\* caller's last observation, unchanged, and the real observations are the
\* trailing rows in their order, so synthetic rows only come before them.
C6_RealRowsTrail ==
    Processed /\ Len(historical_data) >= 1 /\ Len(historical_data) <= 48 =>
        LET n == Len(historical_data)
        IN  /\ Len(Rows) = 48
            /\ Rows[48] = historical_data[n]
            /\ \A k \in 1..n : Rows[48 - n + k] = historical_data[k]
            /\ processed_sequence[48][7] = Quot(historical_data[n].AQI, 500000)

\* three real observations behind 45 synthetic rows that differ from them
C6_Witness ==
    /\ Processed
    /\ Len(historical_data) = 3
    /\ Rows[48] = historical_data[3]
    /\ Rows[45].AQI # historical_data[3].AQI
    /\ Rows[45].AQI # historical_data[1].AQI

\* the real timestamps are ISO texts one hour apart
HourlyRealTimestamps ==
    /\ \A k \in 1..Len(historical_data) : historical_data[k].timestamp.kind = "iso"
    /\ \A k \in 2..Len(historical_data) :
           historical_data[k].timestamp.hour = historical_data[k - 1].timestamp.hour + 1

\* C7: for every input of length 0 to 48 with hourly real timestamps and
\* every current_timestamp, the timestamp used for row i is exactly 1 hour
\* after the timestamp used for row i-1.
C7_HourlySteps ==
    Processed /\ Len(historical_data) <= 48 /\ HourlyRealTimestamps =>
        \A r \in 2..Len(hour_timestamps) :
            hour_timestamps[r] = hour_timestamps[r - 1] + 1

\* C8: with 48 or more observations the 48 rows used are exactly the 48
\* most recent observations.
C8_MostRecent48 ==
    Processed /\ Len(historical_data) >= 48 =>
        LET n == Len(historical_data)
        IN  /\ Rows = SubSeq(historical_data, n - 47, n)
            /\ \A r \in 1..48 :
                   processed_sequence[r][7] = Quot(historical_data[n - 48 + r].AQI, 500000)

\* C9: an empty series yields 48 rows that all carry the baseline values,
\* with timestamps strictly increasing, 1 hour apart, ending at the current
\* time.
C9_EmptySeries ==
    Processed /\ Len(historical_data) = 0 =>
        /\ Len(Rows) = 48
        /\ \A r \in 1..Len(Rows) :
               /\ Rows[r].AQI = 65000
               /\ Rows[r].PM25 = 20000
               /\ Rows[r].PM10 = 35000
               /\ Rows[r].CO = 500
               /\ Rows[r].NO2 = 25000
               /\ Rows[r].SO2 = 8000
               /\ Rows[r].O3 = 45000
        /\ Len(hour_timestamps) = 48
        /\ \A r \in 2..Len(hour_timestamps) :
               hour_timestamps[r] = hour_timestamps[r - 1] + 1
        /\ hour_timestamps[Len(hour_timestamps)] = TheCurrentTime

\* an empty series processed with a current_timestamp that parses
C9_Witness ==
    /\ Processed
    /\ Len(historical_data) = 0
    /\ current_timestamp.kind = "iso"
    /\ hour_timestamps[48] = current_timestamp.hour
    /\ hour_timestamps[1] = current_timestamp.hour - 47

\* C10: the returned matrix has 48 rows of 24 values (7 normalized
\* pollutant and AQI fields, 10 time features, 7 lag and aggregate
\* fields) for every input length, real or synthetic rows alike.
C10_FixedShape ==
    Processed =>
        /\ Len(processed_sequence) = 48
        /\ \A r \in 1..Len(processed_sequence) :
               /\ Len(processed_sequence[r]) = 24
               /\ SubSeq(processed_sequence[r], 1, 7) = PollutantFeatures(padded_data[r])
               /\ SubSeq(processed_sequence[r], 8, 17) = create_time_features(hour_timestamps[r])
               /\ \A c \in 18..24 : processed_sequence[r][c].fn \in {"id", "e-6"}

\* a padded series: the first row is synthetic, the last is real, and both
\* have 24 values
C10_Witness ==
    /\ Processed
    /\ Len(historical_data) = 5
    /\ padded_data[1] # historical_data[1]
    /\ Len(processed_sequence[1]) = 24
    /\ Len(processed_sequence[48]) = 24

(***************************************************************************)
(* Properties of the prediction endpoints                                  *)
(***************************************************************************)
PredictionEndpoints ==
    {"predict_aqi", "predict_live", "predict_from_current",
     "predict_xgboost_optimized", "predict_from_history"}

\* an endpoint answered with a prediction
Successful ==
    op \in PredictionEndpoints /\ response.status_code = HTTP_200_OK

\* C11: every successful prediction response reports, for each of the 8 h,
\* 12 h and 24 h horizons, an aqi between 0 and 500 inclusive, whatever the
\* backend returned.  (Violated: the handlers report round(predicted, 2) of
\* the backend's value, which may be below 0 or above 500.)
C11_ReportedAqiInRange ==
    Successful =>
        \A h \in 1..3 :
            /\ response.predictions[h].aqi >= 0
            /\ response.predictions[h].aqi <= 500 * 100

\* C12: in a successful prediction response the category of each horizon is
\* the threshold category of the aqi that is reported next to it (the value
\* rounded to 2 decimals).  (Violated: the category is taken from the
\* unrounded value, so 50.004 is reported as aqi 50.0, "Moderate".)
C12_CategoryOfReportedAqi ==
    Successful =>
        \A h \in 1..3 :
            response.predictions[h].category
                = get_aqi_category(response.predictions[h].aqi * (Unit \div 100))

\* the endpoints that take the backend's name from the path
NamedEndpoints == {"predict_aqi", "predict_live", "predict_from_current"}

\* the request passed the framework's validation of body and query
Validated ==
    op \in PredictionEndpoints
    /\ response.status_code # HTTP_422_UNPROCESSABLE_ENTITY

\* nothing was fetched or processed and no backend was touched
NothingDone ==
    /\ ~response.processed
    /\ ~response.looked_up
    /\ ~response.backend.called
    /\ (op = "predict_live" => ~live.running)

UnknownName ==
    op \in NamedEndpoints /\ Validated /\ request.model_name \notin valid_models

NotLoaded ==
    /\ Validated
    /\ request.model_name \in valid_models
    /\ request.model_name \notin models

\* C14: for every prediction entry point, when the backend is registered
\* but has no entry in the registry, the caller sees 503 Service
\* Unavailable and the backend is neither looked up nor called.
\* (Violated: predict_from_history answers 500.)
C14_NotLoadedIsUnavailable ==
    NotLoaded =>
        /\ response.status_code = HTTP_503_SERVICE_UNAVAILABLE
        /\ ~response.looked_up
        /\ ~response.backend.called

BackendRaised ==
    op \in PredictionEndpoints /\ response.backend.called /\ response.backend.raised

OutOfRange(data) ==
    \E k \in 1..Len(data) : data[k].PM25 < 0 \/ data[k].AQI > 500 * 1000

\* C18: a request body with an out-of-range pollutant value (a negative
\* PM2.5, an AQI above 500) is rejected with a validation error and reaches
\* neither process_historical_data nor a backend.  (Violated: HourlyData
\* puts no bounds on its fields.)
C18_OutOfRangeRejected ==
    (op \in {"predict_aqi", "predict_from_history"}
     /\ OutOfRange(request.historical_data)) =>
        /\ response.status_code = HTTP_422_UNPROCESSABLE_ENTITY
        /\ ~response.processed
        /\ ~response.backend.called

(***************************************************************************)
(* Properties of fetch_live_air_quality_data                               *)
(***************************************************************************)
Fetched == op = "fetch_live_air_quality_data"

\* a series is missing or its length differs from the length of "time"
Malformed(hourly) ==
    \E k \in 1..Len(SeriesNames) :
        Len(hourly[SeriesNames[k]]) # Len(hourly.time)

\* the hours (counted from 1) at which all six series hold a value
CompleteHours(hourly) ==
    {j \in 1..Len(hourly.time) :
        \A k \in 1..Len(SeriesNames) :
            /\ j <= Len(hourly[SeriesNames[k]])
            /\ hourly[SeriesNames[k]][j] # Null}

\* the most recent (at most hours) of them
MostRecent(hourly, hours) ==
    {j \in CompleteHours(hourly) :
        Cardinality({m \in CompleteHours(hourly) : m > j}) < hours}

\* the index computed for hour j of a well-formed response
AqiAt(hourly, j) ==
    calculate_aqi_from_pollutants(
        hourly.pm2_5[j][1], hourly.pm10[j][1], hourly.ozone[j][1],
        hourly.nitrogen_dioxide[j][1], hourly.sulphur_dioxide[j][1],
        hourly.carbon_monoxide[j][1])

\* the list is what generate_mock_data returns (its timestamps come from
\* isoformat(), those of live observations end in "Z")
IsMockSeries(value, hours, current_time) ==
    /\ \A k \in 1..Len(value) : value[k].timestamp.kind = "iso"
    /\ value = generate_mock_data(hours, current_time)

\* C16: fetch_live_air_quality_data never raises and, for hours >= 1, never
\* returns an empty list; on a transport failure, a timeout, an HTTP error
\* status, a malformed response (missing or unequal-length arrays), no
\* complete hour, or computed AQI values that are all 0, it returns the
\* mock series of exactly hours observations.  (Violated: arrays of unequal
\* length are not always noticed.)
C16_MockOnEveryFailure ==
    (Fetched /\ hours_arg >= 1) =>
        /\ ~fetched.raised
        /\ fetched.value # <<>>
        /\ (\/ provider.outcome \in RequestFailures
            \/ Malformed(provider.hourly)
            \/ MostRecent(provider.hourly, hours_arg) = {}
            \/ \A j \in MostRecent(provider.hourly, hours_arg) :
                  AqiAt(provider.hourly, j) = Whole(0))
           => /\ IsMockSeries(fetched.value, hours_arg, now)
              /\ Len(fetched.value) = hours_arg

\* the response is well formed and holds a complete hour, among the most
\* recent ones, whose index is not 0: the observations returned are live
LiveReturned ==
    /\ Fetched
    /\ provider.outcome = "ok"
    /\ ~Malformed(provider.hourly)
    /\ \E j \in MostRecent(provider.hourly, hours_arg) :
          AqiAt(provider.hourly, j) # Whole(0)

\* C17: an hour of the provider's response is included only if all six
\* series hold a value at that hour, and the observations returned are the
\* most recent (at most hours) complete hours, oldest first.
C17_MostRecentCompleteHours ==
    LiveReturned =>
        LET hourly == provider.hourly
            chosen == MostRecent(hourly, hours_arg)
        IN  /\ Len(fetched.value) = Cardinality(chosen)
            /\ Len(fetched.value) <= hours_arg
            /\ \A k \in 1..Len(fetched.value) :
                  \E j \in chosen :
                      /\ Cardinality({m \in chosen : m < j}) = k - 1
                      /\ fetched.value[k].timestamp = UtcTimestamp(hourly.time[j])
                      /\ fetched.value[k].PM25 = hourly.pm2_5[j][1] * 100
                      /\ fetched.value[k].PM10 = hourly.pm10[j][1] * 100
                      /\ fetched.value[k].O3 = hourly.ozone[j][1] * 100
                      /\ fetched.value[k].AQI = AqiAt(hourly, j)

C17_Witness ==
    /\ LiveReturned
    /\ hours_arg = 2
    /\ Len(provider.hourly.time) > 2
    /\ Cardinality(CompleteHours(provider.hourly)) > 2
    /\ \E j \in 1..Len(provider.hourly.time) :
          /\ j \notin CompleteHours(provider.hourly)
          /\ \E m \in MostRecent(provider.hourly, hours_arg) : m < j
          /\ \E m \in MostRecent(provider.hourly, hours_arg) : m > j
    /\ Len(fetched.value) = 2

(***************************************************************************)
(* Properties of load_models and of the registry                           *)
(***************************************************************************)
\* C19: load_models never raises; when it returns the registry holds
\* exactly the backends whose artifact was loaded, whatever the other
\* load attempts met, so a failure of one backend does not prevent the
\* loading of the later ones.
C19_LoadModels ==
    op = "load_models" =>
        /\ ~load_outcomes.raised
        /\ models = {n \in valid_models :
                        load_outcomes.met[n] \in {"loaded", "loaded_safe_mode"}}

C19_Witness ==
    /\ op = "load_models"
    /\ load_outcomes.met["lstm"] = "import_raises"
    /\ load_outcomes.met["linear_regression"] = "load_raises"
    /\ load_outcomes.met["xgboost"] = "missing"
    /\ models = {"random_forest"}

\* C20: once load_models has returned no step of any request handler adds,
\* removes or replaces an entry of the registry, however the requests
\* interleave.
C20_RegistryReadOnly ==
    [][op # "boot" => models' = models]_vars

\* a request was answered with a prediction while a predict_live call was
\* waiting for its data
C20_Witness ==
    /\ live.running
    /\ op = "predict_aqi"
    /\ response.status_code = HTTP_200_OK
    /\ request.model_name # live.model_name

(***************************************************************************)
(* Further properties of process_historical_data, create_time_features and *)
(* calculate_aqi_from_pollutants                                           *)
(***************************************************************************)
\* the sum of the AQI of count rows, the last of which is row i (counted
\* from 0)
RECURSIVE WindowSum(_, _, _)
WindowSum(rows, i, count) ==
    IF count = 0 THEN 0 ELSE rows[i + 1].AQI + WindowSum(rows, i - 1, count - 1)

\* C21: for each row i of the normalized series the 1-hour lag AQI is the
\* AQI of row i-1 (of row i itself when i = 0), the 24-hour lag AQI and
\* PM2.5 are those of row i-24 (of row i itself when i < 24), and the
\* trailing average AQI is the mean over the min(i+1, 24) rows
\* max(0, i-23)..i.
C21_LagFeatures ==
    Processed =>
        \A r \in 1..Len(processed_sequence) :
            LET i == r - 1
                own == Rows[r]
                prev == IF i = 0 THEN own ELSE Rows[r - 1]
                day == IF i < 24 THEN own ELSE Rows[r - 24]
                window == Min(i + 1, 24)
            IN  /\ processed_sequence[r][18] = Quot(prev.AQI, 500000)
                /\ processed_sequence[r][19] = Quot(day.AQI, 500000)
                /\ processed_sequence[r][20] = Quot(day.PM25, 100000)
                /\ processed_sequence[r][21]
                     = Quot(WindowSum(Rows, i, window), window * 500000)

\* 48 real rows that differ: row 30 has its own lags
C21_Witness ==
    /\ Processed
    /\ Len(historical_data) = 48
    /\ historical_data[31].AQI # historical_data[7].AQI
    /\ processed_sequence[31][19] = Quot(historical_data[7].AQI, 500000)
    /\ processed_sequence[31][18] = Quot(historical_data[30].AQI, 500000)

\* C22: no division by zero occurs in process_historical_data whatever the
\* observations hold (AQI = 0, PM10 = 0, negative values): the divisors of
\* the AQI trend and of the PM2.5/PM10 ratio are at least 1 (1000
\* thousandths) and the trailing average divides by at least one row.
C22_DivisorsAtLeastOne ==
    Processed =>
        \A r \in 1..Len(processed_sequence) :
            /\ processed_sequence[r][21].den >= 500000
            /\ processed_sequence[r][22].den >= 1000
            /\ processed_sequence[r][23].den >= 1000
            /\ \A c \in 1..Len(processed_sequence[r]) :
                  processed_sequence[r][c].den > 0

\* rows with AQI = 0 and PM10 = 0, and rows with negative values
C22_Witness ==
    /\ Processed
    /\ Len(historical_data) = 3
    /\ historical_data[2].PM10 <= 0
    /\ historical_data[2].AQI <= 0
    /\ processed_sequence[48][22].den = 1000
    /\ processed_sequence[48][23].den = 1000

\* C24: from n observations, 0 < n < 48, exactly 48 - n rows are
\* synthesized from the most recent observation; every field of a synthetic
\* row lies between 0.9 and 1.1 times the same field of that observation
\* when the field is not negative; the n real rows follow unmodified and in
\* their order.
C24_SyntheticRows ==
    (Processed /\ Len(historical_data) > 0 /\ Len(historical_data) < 48) =>
        LET n == Len(historical_data)
            latest_data == historical_data[n]
            Within(value, template) ==
                template >= 0 =>
                    /\ 100 * value >= 90 * template
                    /\ 100 * value <= 110 * template
        IN  /\ Len(padded_data) = 48
            /\ \A k \in 1..(48 - n) :
                  /\ Within(padded_data[k].CO, latest_data.CO)
                  /\ Within(padded_data[k].NO2, latest_data.NO2)
                  /\ Within(padded_data[k].SO2, latest_data.SO2)
                  /\ Within(padded_data[k].O3, latest_data.O3)
                  /\ Within(padded_data[k].PM25, latest_data.PM25)
                  /\ Within(padded_data[k].PM10, latest_data.PM10)
                  /\ Within(padded_data[k].AQI, latest_data.AQI)
                  /\ padded_data[k].timestamp = NoTimestamp
            /\ \A k \in 1..n : padded_data[48 - n + k] = historical_data[k]

\* 47 rows synthesized from one observation, not all with the same factor
C24_Witness ==
    /\ Processed
    /\ Len(historical_data) = 1
    /\ historical_data[1].PM25 > 0
    /\ padded_data[1].PM25 # padded_data[2].PM25
    /\ padded_data[48] = historical_data[1]

\* the three flags of the row r of the returned matrix
FlagsOf(r) ==
    [is_weekend |-> processed_sequence[r][15].num,
     is_rush |-> processed_sequence[r][16].num,
     rush_weekday |-> processed_sequence[r][17].num]

\* C27: create_time_features sets the weekend flag to 1 exactly when the
\* day of the week is 5 or 6, and the rush-hour flag to 1 exactly when the
\* day is not a weekend day and the hour is one of 7, 8, 9, 17, 18, 19; so
\* the two flags are never both 1 and the rush-hour-times-weekday product
\* equals the rush-hour flag.
C27_WeekendAndRushFlags ==
    Processed =>
        \A r \in 1..Len(processed_sequence) :
            LET dt == DateOf(hour_timestamps[r])
                flags == FlagsOf(r)
            IN  /\ flags.is_weekend \in {0, 1}
                /\ flags.is_rush \in {0, 1}
                /\ flags.is_weekend = 1 <=> dt.weekday >= 5
                /\ flags.is_rush = 1 <=>
                      (dt.weekday < 5 /\ dt.hour \in {7, 8, 9, 17, 18, 19})
                /\ ~(flags.is_weekend = 1 /\ flags.is_rush = 1)
                /\ flags.rush_weekday = flags.is_rush
                /\ processed_sequence[r][15].den = 1
                /\ processed_sequence[r][16].den = 1
                /\ processed_sequence[r][17].den = 1

\* a weekend row at a rush hour of the day and a weekday row at rush hour
C27_Witness ==
    /\ Processed
    /\ \E r \in 1..Len(processed_sequence) :
          /\ DateOf(hour_timestamps[r]).weekday >= 5
          /\ DateOf(hour_timestamps[r]).hour = 8
          /\ FlagsOf(r).is_rush = 0
    /\ \E r \in 1..Len(processed_sequence) :
          /\ DateOf(hour_timestamps[r]).weekday < 5
          /\ DateOf(hour_timestamps[r]).hour = 8
          /\ FlagsOf(r).is_rush = 1

\* C25: calculate_aqi_from_pollutants treats a negative concentration as
\* 0: the result equals the result for max(value, 0) in place of each of
\* pm25, o3, no2, so2 and co.  (Violated: a negative secondary pollutant is
\* subtracted from the index.)
C25_NegativeAsZero ==
    Calculated =>
        total_aqi = calculate_aqi_from_pollutants(
                        Max(pollutants.pm25, 0), pollutants.pm10,
                        Max(pollutants.o3, 0), Max(pollutants.no2, 0),
                        Max(pollutants.so2, 0), Max(pollutants.co, 0))

(***************************************************************************)
(* Further properties of the endpoints                                     *)
(***************************************************************************)
\* C26: predict_live with a loaded backend that answers returns a
\* prediction for every accepted hour count in 1..120: a fetched or mock
\* series of more than 48 observations is cut to 48, not refused.
\* (Violated: more than 48 observations fail the max_items=48 of
\* AqiPredictionInput and the caller gets 500.)
C26_LivePredictsForEveryHourCount ==
    (/\ op = "predict_live"
     /\ Validated
     /\ request.hours >= 1
     /\ request.hours <= 120
     /\ request.model_name \in models
     /\ ~response.backend.raised) =>
        /\ response.status_code = HTTP_200_OK
        /\ Len(response.predictions) = 3

(***************************************************************************)
(* C23                                                                     *)
(***************************************************************************)
Extracted == op = "extract_optimized_input_from_history"

LagValues(data_point) ==
    [AQI |-> data_point.AQI, PM25 |-> data_point.PM25, O3 |-> data_point.O3]

\* sorted_data holds the observations of the history, oldest timestamp first
InTimestampOrder ==
    /\ Len(optimized_input.sorted_data) = Len(historical_data)
    /\ {optimized_input.sorted_data[k] : k \in 1..Len(historical_data)}
           = {historical_data[k] : k \in 1..Len(historical_data)}
    /\ \A j \in 1..Len(historical_data) : \A k \in j..Len(historical_data) :
           KeyLeq(TimestampKey(optimized_input.sorted_data[j].timestamp),
                  TimestampKey(optimized_input.sorted_data[k].timestamp))

\* the values of an interval are those of an observation of the history
RealValues(k) ==
    \E j \in 1..Len(historical_data) :
        optimized_input.lags[k] = LagValues(historical_data[j])

=============================================================================
